---- MODULE Spec2Model ----
(***************************************************************************)
(* Model of the Threads OAuth token broker (app/services/threads_auth.py)  *)
(* and of the API handlers that drive it (app/api/main.py).                *)
(*                                                                         *)
(* A Python str is a sequence of one-character strings; Python's None is   *)
(* the one-element sequence None, which is no str.  A JSON response body   *)
(* is a record [parse, fields]: parse says whether response.json() yields  *)
(* an object, another JSON value, or raises; fields is the object's set of *)
(* <<key, value>> pairs.                                                   *)
(***************************************************************************)
EXTENDS Integers, Sequences, FiniteSets, TLC

VARIABLES
    env,      \* the process environment os.getenv reads
    cur,      \* the API request being handled, or the last one answered
    svc,      \* a broker object a caller of the service class holds
    res,      \* the outcome of the last call made on svc
    issued    \* history: what each generate_auth_url call returned

vars == <<env, cur, svc, res, issued>>

----------------------------------------------------------------------------
(* Bounds of the model. *)

\* number of generate_auth_url calls a caller of the service class makes
MaxGenerate == 2

\* number of logins /auth/threads/login answers
MaxLogins == 1

\* number of characters of a modelled secrets.token_urlsafe value
NonceLen == 1

----------------------------------------------------------------------------
(* Python values *)

None == <<"None">>

\* Python truthiness of an Optional[str]: None and "" are falsy
Truthy(s) == s # None /\ s # <<>>

----------------------------------------------------------------------------
(* String literals of the source *)

HttpsPrefix == <<"h", "t", "t", "p", "s", ":", "/", "/">>

CallbackPath == <<"/", "a", "u", "t", "h", "/", "t", "h", "r", "e", "a", "d", "s", "/", "c", "a", "l", "l", "b", "a", "c", "k">>

FallbackRedirectUri == <<"h", "t", "t", "p", "s", ":", "/", "/", "t", "h", "r", "e", "a", "d", "s", "-", "i", "n", "s", "i", "g", "h", "t", "s", "-", "t", "o", "o", "l", ".", "v", "e", "r", "c", "e", "l", ".", "a", "p", "p", "/", "a", "u", "t", "h", "/", "t", "h", "r", "e", "a", "d", "s", "/", "c", "a", "l", "l", "b", "a", "c", "k">>

AuthBaseUrl == <<"h", "t", "t", "p", "s", ":", "/", "/", "t", "h", "r", "e", "a", "d", "s", ".", "n", "e", "t", "/", "o", "a", "u", "t", "h", "/", "a", "u", "t", "h", "o", "r", "i", "z", "e">>

ScopeValue == <<"t", "h", "r", "e", "a", "d", "s", "_", "b", "a", "s", "i", "c", ",", "t", "h", "r", "e", "a", "d", "s", "_", "m", "a", "n", "a", "g", "e", "_", "i", "n", "s", "i", "g", "h", "t", "s">>

K_client_id == <<"c", "l", "i", "e", "n", "t", "_", "i", "d">>

K_redirect_uri == <<"r", "e", "d", "i", "r", "e", "c", "t", "_", "u", "r", "i">>

K_scope == <<"s", "c", "o", "p", "e">>

K_response_type == <<"r", "e", "s", "p", "o", "n", "s", "e", "_", "t", "y", "p", "e">>

K_state == <<"s", "t", "a", "t", "e">>

V_code == <<"c", "o", "d", "e">>

----------------------------------------------------------------------------
(* urllib.parse.urlencode, as generate_auth_url uses it, and its inverse *)

\* characters quote_plus never escapes
SafeChars ==
    {"a", "b", "c", "d", "e", "f", "g", "h", "i", "j", "k", "l", "m", "n",
     "o", "p", "q", "r", "s", "t", "u", "v", "w", "x", "y", "z",
     "A", "B", "C", "D", "E", "F", "G", "H", "I", "J", "K", "L", "M", "N",
     "O", "P", "Q", "R", "S", "T", "U", "V", "W", "X", "Y", "Z",
     "0", "1", "2", "3", "4", "5", "6", "7", "8", "9",
     "_", ".", "-", "~"}

\* the %XX escapes of the other characters the model uses
PercentTable ==
    { <<":", <<"%", "3", "A">> >>, <<"/", <<"%", "2", "F">> >>,
      <<",", <<"%", "2", "C">> >>, <<"&", <<"%", "2", "6">> >>,
      <<"=", <<"%", "3", "D">> >>, <<"%", <<"%", "2", "5">> >>,
      <<"+", <<"%", "2", "B">> >>, <<"?", <<"%", "3", "F">> >>,
      <<"#", <<"%", "2", "3">> >> }

QuoteChar(c) ==
    IF c \in SafeChars THEN <<c>>
    ELSE IF c = " " THEN <<"+">>
    ELSE (CHOOSE p \in PercentTable : p[1] = c)[2]

RECURSIVE quote_plus(_)
quote_plus(s) ==
    IF s = <<>> THEN <<>> ELSE QuoteChar(Head(s)) \o quote_plus(Tail(s))

\* params: the dict's items in insertion order, a sequence of <<key, value>>
RECURSIVE urlencode(_)
urlencode(params) ==
    IF params = <<>> THEN <<>>
    ELSE LET kv == quote_plus(Head(params)[1]) \o <<"=">> \o quote_plus(Head(params)[2])
         IN  IF Len(params) = 1 THEN kv
             ELSE kv \o <<"&">> \o urlencode(Tail(params))

IndexOf(s, c) ==
    IF \E i \in 1..Len(s) : s[i] = c
    THEN CHOOSE i \in 1..Len(s) : s[i] = c /\ \A j \in 1..(i - 1) : s[j] # c
    ELSE 0

RECURSIVE Split(_, _)
Split(s, sep) ==
    LET i == IndexOf(s, sep)
    IN  IF i = 0 THEN <<s>>
        ELSE <<SubSeq(s, 1, i - 1)>> \o Split(SubSeq(s, i + 1, Len(s)), sep)

RECURSIVE unquote(_)
unquote(s) ==
    IF s = <<>> THEN <<>>
    ELSE IF /\ Head(s) = "%"
            /\ Len(s) >= 3
            /\ \E p \in PercentTable : p[2] = SubSeq(s, 1, 3)
         THEN <<(CHOOSE p \in PercentTable : p[2] = SubSeq(s, 1, 3))[1]>>
                  \o unquote(SubSeq(s, 4, Len(s)))
         ELSE <<Head(s)>> \o unquote(Tail(s))

unquote_plus(s) ==
    unquote([i \in 1..Len(s) |-> IF s[i] = "+" THEN " " ELSE s[i]])

\* one name=value piece of a query string, decoded
ParsePair(piece) ==
    LET i == IndexOf(piece, "=")
    IN  IF i = 0 THEN <<unquote_plus(piece), <<>> >>
        ELSE <<unquote_plus(SubSeq(piece, 1, i - 1)),
               unquote_plus(SubSeq(piece, i + 1, Len(piece)))>>

\* urllib.parse.parse_qsl(query, keep_blank_values=True)
parse_qsl(query) ==
    IF query = <<>> THEN <<>>
    ELSE LET pieces == SelectSeq(Split(query, "&"), LAMBDA p : p # <<>>)
         IN  [i \in 1..Len(pieces) |-> ParsePair(pieces[i])]

\* the part of a URL after its first "?"
QueryOf(url) ==
    LET i == IndexOf(url, "?")
    IN  IF i = 0 THEN <<>> ELSE SubSeq(url, i + 1, Len(url))

\* the part of a URL before its first "?"
BaseOf(url) ==
    LET i == IndexOf(url, "?")
    IN  IF i = 0 THEN url ELSE SubSeq(url, 1, i - 1)

\* the values the URL's query string carries for the parameter name, in order
QueryParam(url, name) ==
    LET sel == SelectSeq(parse_qsl(QueryOf(url)), LAMBDA kv : kv[1] = name)
    IN  [i \in 1..Len(sel) |-> sel[i][2]]

----------------------------------------------------------------------------
(* The provider's answers: inputs of the model *)

T1 == <<"t", "1">>

T2 == <<"t", "2">>

C1code == <<"c", "1">>

\* response.json() raises: the body is no JSON
BodyInvalid == [parse |-> "invalid", fields |-> {}]

\* a JSON value that is no object
BodyArray == [parse |-> "array", fields |-> {}]

BodyError == [parse |-> "object", fields |-> {<<"error", <<"b", "a", "d">> >>}]

BodyToken == [parse |-> "object", fields |-> {<<"access_token", T1>>}]

BodyTokenLong ==
    [parse |-> "object",
     fields |-> {<<"access_token", T2>>, <<"expires_in", <<"5", "1", "8", "4", "0", "0", "0">> >>}]

BodyProfile ==
    [parse |-> "object",
     fields |-> {<<"id", <<"7">> >>, <<"username", <<"u">> >>, <<"extra", <<"x">> >>}]

Bodies == {BodyInvalid, BodyArray, BodyError, BodyToken, BodyTokenLong, BodyProfile}

NoBody == [parse |-> "none", fields |-> {}]

StatusOK == 200

StatusBadRequest == 400

StatusUnauthorized == 401

StatusServerError == 500

\* the status codes the provider answers with in the model
Statuses == {StatusOK, StatusBadRequest, StatusServerError}

\* the bodies that come with a 4xx/5xx status in the model
ErrorBodies == {BodyError, BodyToken}

\* net = "error": no response arrived (connection failure)
Responses ==
    [net : {"ok"}, status : {StatusOK}, body : Bodies]
        \cup [net : {"ok"}, status : Statuses \ {StatusOK}, body : ErrorBodies]
        \cup {[net |-> "error", status |-> 0, body |-> NoBody]}

HasKey(body, k) == \E kv \in body.fields : kv[1] = k

\* dict.get(k, default)
Get(body, k, default) ==
    IF HasKey(body, k) THEN (CHOOSE kv \in body.fields : kv[1] = k)[2] ELSE default

----------------------------------------------------------------------------
(* class ThreadsAuthService *)

BrokerFields == {"app_id", "app_secret", "redirect_uri"}

\* mutant: the constructor without its credential check
ThreadsAuthService_unchecked(e) ==
    LET vercel_url == e.VERCEL_URL
    IN  [raised |-> "none",
         self |-> [app_id       |-> e.THREADS_APP_ID,
                   app_secret   |-> e.THREADS_APP_SECRET,
                   redirect_uri |-> IF Truthy(vercel_url)
                                    THEN HttpsPrefix \o vercel_url \o CallbackPath
                                    ELSE FallbackRedirectUri],
         http |-> <<>>]

\* __init__: [raised, self]; self is the object only when nothing was raised
ThreadsAuthService(e) ==
    LET vercel_url == e.VERCEL_URL
        self == [app_id       |-> e.THREADS_APP_ID,
                 app_secret   |-> e.THREADS_APP_SECRET,
                 redirect_uri |-> IF Truthy(vercel_url)
                                  THEN HttpsPrefix \o vercel_url \o CallbackPath
                                  ELSE FallbackRedirectUri]
    IN  IF ~Truthy(self.app_id) \/ ~Truthy(self.app_secret)
        THEN [raised |-> "ValueError", self |-> self, http |-> <<>>]
        ELSE [raised |-> "none", self |-> self, http |-> <<>>]

\* mutant: a failed request is sent a second time before the error is raised
Fetch_retry(self, req, resp) ==
    IF resp.net = "error"
    THEN [self |-> self, http |-> <<req, req>>, raised |-> "ConnectionError", value |-> NoBody]
    ELSE IF resp.status >= 400 /\ resp.status < 600
    THEN [self |-> self, http |-> <<req, req>>, raised |-> "HTTPError", value |-> NoBody]
    ELSE IF resp.body.parse = "invalid"
    THEN [self |-> self, http |-> <<req>>, raised |-> "JSONDecodeError", value |-> NoBody]
    ELSE [self |-> self, http |-> <<req>>, raised |-> "none", value |-> resp.body]

\* requests.post / requests.get followed by raise_for_status() and json():
\* what one broker call makes of the request it sends and the answer it gets
Fetch(self, req, resp) ==
    IF resp.net = "error"
    THEN [self |-> self, http |-> <<req>>, raised |-> "ConnectionError", value |-> NoBody]
    ELSE IF resp.status >= 400 /\ resp.status < 600
    THEN [self |-> self, http |-> <<req>>, raised |-> "HTTPError", value |-> NoBody]
    ELSE IF resp.body.parse = "invalid"
    THEN [self |-> self, http |-> <<req>>, raised |-> "JSONDecodeError", value |-> NoBody]
    ELSE [self |-> self, http |-> <<req>>, raised |-> "none", value |-> resp.body]

\* mutant: the state is appended to the query string without being quoted
generate_auth_url_raw(self, state, rnd) ==
    LET st == IF state = None THEN rnd ELSE state
        params == << <<K_client_id, self.app_id>>,
                     <<K_redirect_uri, self.redirect_uri>>,
                     <<K_scope, ScopeValue>>,
                     <<K_response_type, V_code>> >>
    IN  [self |-> self, http |-> <<>>, raised |-> "none",
         value |-> [url |-> AuthBaseUrl \o <<"?">> \o urlencode(params)
                               \o <<"&">> \o K_state \o <<"=">> \o st,
                    state |-> st]]

\* rnd: what secrets.token_urlsafe(32) returns if it is called
generate_auth_url(self, state, rnd) ==
    LET st == IF state = None THEN rnd ELSE state
        params == << <<K_client_id, self.app_id>>,
                     <<K_redirect_uri, self.redirect_uri>>,
                     <<K_scope, ScopeValue>>,
                     <<K_response_type, V_code>>,
                     <<K_state, st>> >>
    IN  [self |-> self, http |-> <<>>, raised |-> "none",
         value |-> [url |-> AuthBaseUrl \o <<"?">> \o urlencode(params), state |-> st]]

\* mutant: the broker keeps the code it exchanged
exchange_code_for_token_caching(self, authorization_code, resp) ==
    LET data == [client_id     |-> self.app_id,
                 client_secret |-> self.app_secret,
                 grant_type    |-> "authorization_code",
                 redirect_uri  |-> self.redirect_uri,
                 code          |-> authorization_code]
        kept == [f \in BrokerFields \cup {"last_code"} |->
                    IF f = "last_code" THEN authorization_code ELSE self[f]]
    IN  Fetch(kept, [op |-> "exchange", method |-> "POST",
                     url |-> "https://graph.threads.net/oauth/access_token",
                     data |-> data], resp)

\* mutant: the exchange sends the literal redirect URI, not the broker's
exchange_code_for_token_literal(self, authorization_code, resp) ==
    LET data == [client_id     |-> self.app_id,
                 client_secret |-> self.app_secret,
                 grant_type    |-> "authorization_code",
                 redirect_uri  |-> FallbackRedirectUri,
                 code          |-> authorization_code]
    IN  Fetch(self, [op |-> "exchange", method |-> "POST",
                     url |-> "https://graph.threads.net/oauth/access_token",
                     data |-> data], resp)

exchange_code_for_token(self, authorization_code, resp) ==
    LET data == [client_id     |-> self.app_id,
                 client_secret |-> self.app_secret,
                 grant_type    |-> "authorization_code",
                 redirect_uri  |-> self.redirect_uri,
                 code          |-> authorization_code]
    IN  Fetch(self, [op |-> "exchange", method |-> "POST",
                     url |-> "https://graph.threads.net/oauth/access_token",
                     data |-> data], resp)

get_long_lived_token(self, short_lived_token, resp) ==
    LET params == [grant_type    |-> "th_exchange_token",
                   client_secret |-> self.app_secret,
                   access_token  |-> short_lived_token]
    IN  Fetch(self, [op |-> "upgrade", method |-> "GET",
                     url |-> "https://graph.threads.net/access_token",
                     params |-> params], resp)

refresh_long_lived_token(self, long_lived_token, resp) ==
    LET params == [grant_type   |-> "th_refresh_token",
                   access_token |-> long_lived_token]
    IN  Fetch(self, [op |-> "refresh", method |-> "GET",
                     url |-> "https://graph.threads.net/refresh_access_token",
                     params |-> params], resp)

test_token(self, access_token, resp) ==
    LET params == [fields       |-> "id,username,name,threads_profile_picture_url,threads_biography",
                   access_token |-> access_token]
    IN  Fetch(self, [op |-> "profile", method |-> "GET",
                     url |-> "https://graph.threads.net/v1.0/me",
                     params |-> params], resp)

----------------------------------------------------------------------------
(* The environment and the inputs *)

AppId == <<"X", "1">>

AppSecret == <<"s", "3">>

Host == <<"h", ".", "a", "p", "p">>

Envs ==
    [THREADS_APP_ID       : {None, <<>>, AppId},
     THREADS_APP_SECRET   : {None, <<>>, AppSecret},
     VERCEL_URL           : {None, <<>>, Host},
     THREADS_ACCESS_TOKEN : {None, T1}]

\* the alphabet of the modelled secrets.token_urlsafe values
NonceChars == {"a", "-"}

NonceSpace == [1..NonceLen -> NonceChars]

\* a state no generate_auth_url call can have produced
BogusState == <<"z", "z", "z">>

\* states a caller passes to generate_auth_url explicitly
SuppliedStates == {<<>>, <<"a", "+", " ", "&", "=", "%", "2", "6">>}

\* request.query_params of a callback: a missing parameter is None, one given
\* without a value is ""; the state is absent, one a login returned, or one that
\* no login returned
Queries(states) ==
    [code  : {None, <<>>, C1code},
     state : {None, BogusState} \cup states,
     error : {None, <<>>, <<"d", "e", "n", "y">>}]

----------------------------------------------------------------------------
(* State *)

NoSelf == [app_id |-> None, app_secret |-> None, redirect_uri |-> None]

NoService == [alive |-> FALSE, self |-> NoSelf]

NoQuery == [code |-> None, state |-> None, error |-> None]

NoResponse ==
    [status |-> 0, kind |-> "none", token |-> None, auth_url |-> None,
     state |-> None, user_info |-> NoBody]

Idle ==
    [kind |-> "idle", pc |-> "idle", query |-> NoQuery, auth_service |-> NoService,
     calls |-> <<>>, short_token |-> None, long_token |-> None,
     exc |-> "none", exc_status |-> 0, response |-> NoResponse]

NoResp == [net |-> "none", status |-> 0, body |-> NoBody]

NoRes ==
    [op |-> "none", arg |-> None, resp |-> NoResp,
     out |-> [self |-> NoSelf, http |-> <<>>, raised |-> "none", value |-> NoBody]]

\* the states generate_auth_url has returned so far
IssuedStates == {issued[i].state : i \in 1..Len(issued)}

\* the states generated for login attempts (what /auth/threads/login returned)
PendingStates == {issued[i].state : i \in {j \in 1..Len(issued) : issued[j].login}}

\* secrets.token_urlsafe(32): 256 bits of the system's CSPRNG.  An ideal nonce
\* source: any value of the space that was not returned or seen before.
token_urlsafe == NonceSpace \ IssuedStates

Init ==
    /\ env \in Envs
    /\ cur = Idle
    /\ svc = NoService
    /\ res = NoRes
    /\ issued = <<>>

----------------------------------------------------------------------------
(* app/api/main.py: what the handlers do with exceptions and results *)

\* except Exception as e: raise HTTPException(status_code=500, detail=str(e))
\* status: the status_code of the exception caught when it is an HTTPException
except_Exception(status) == StatusServerError

\* mutant: d.get(k) in place of d[k]
Subscript_get(body, k) == [raised |-> "none", value |-> Get(body, k, None)]

\* d[k] on what response.json() returned
Subscript(body, k) ==
    IF body.parse # "object" THEN [raised |-> "TypeError", value |-> None]
    ELSE IF ~HasKey(body, k) THEN [raised |-> "KeyError", value |-> None]
    ELSE [raised |-> "none", value |-> Get(body, k, None)]

\* the request ends in the except clause
Fail(c, exc, status) ==
    [c EXCEPT !.pc = "done", !.exc = exc, !.exc_status = status,
              !.response = [NoResponse EXCEPT !.status = except_Exception(status),
                                              !.kind = "error"]]

\* the broker calls of a request, with the answer each got
Logged(c, out, resp) ==
    c.calls \o [i \in 1..Len(out.http) |->
                   [req |-> out.http[i], resp |-> resp, raised |-> out.raised]]

Ready == cur.pc \in {"idle", "done"}

----------------------------------------------------------------------------
(* GET /auth/threads/login *)

threads_login(e, rnd) ==
    LET ctor == ThreadsAuthService(e)
        c0 == [Idle EXCEPT !.kind = "login"]
    IN  IF ctor.raised # "none" THEN Fail(c0, ctor.raised, 0)
        ELSE LET out == generate_auth_url(ctor.self, None, rnd)
             IN  [c0 EXCEPT !.pc = "done",
                            !.auth_service = [alive |-> TRUE, self |-> out.self],
                            !.calls = Logged(c0, out, NoResp),
                            !.response = [NoResponse EXCEPT !.status = StatusOK,
                                                            !.kind = "json",
                                                            !.auth_url = out.value.url,
                                                            !.state = out.value.state]]

Login ==
    /\ Ready
    /\ Len(issued) < MaxLogins
    /\ \E rnd \in token_urlsafe :
          /\ cur' = threads_login(env, rnd)
          /\ issued' = IF cur'.response.status = StatusOK
                       THEN Append(issued, [url |-> cur'.response.auth_url,
                                            state |-> cur'.response.state,
                                            fresh |-> TRUE, login |-> TRUE])
                       ELSE issued
    /\ UNCHANGED <<env, svc, res>>

----------------------------------------------------------------------------
(* GET /auth/threads/callback *)

\* lines 152-164: the parameter checks and the construction of the broker
threads_callback_begin(e, q) ==
    LET c0 == [Idle EXCEPT !.kind = "callback", !.query = q]
    IN  IF Truthy(q.error) THEN Fail(c0, "HTTPException", StatusBadRequest)
        ELSE IF ~Truthy(q.code) THEN Fail(c0, "HTTPException", StatusBadRequest)
        ELSE LET ctor == ThreadsAuthService(e)
             IN  IF ctor.raised # "none" THEN Fail(c0, ctor.raised, 0)
                 ELSE [c0 EXCEPT !.pc = "exchange",
                                 !.auth_service = [alive |-> TRUE, self |-> ctor.self]]

\* mutant: the handler goes on to the upgrade whatever the exchange did
threads_callback_exchange_lenient(c, resp) ==
    LET out == exchange_code_for_token(c.auth_service.self, c.query.code, resp)
        c1 == [c EXCEPT !.calls = Logged(c, out, resp), !.auth_service.self = out.self]
    IN  [c1 EXCEPT !.pc = "upgrade",
                   !.short_token = Get(out.value, "access_token", None)]

\* lines 167-168
threads_callback_exchange(c, resp) ==
    LET out == exchange_code_for_token(c.auth_service.self, c.query.code, resp)
        c1 == [c EXCEPT !.calls = Logged(c, out, resp), !.auth_service.self = out.self]
        short_token == Subscript(out.value, "access_token")
    IN  IF out.raised # "none" THEN Fail(c1, out.raised, 0)
        ELSE IF short_token.raised # "none" THEN Fail(c1, short_token.raised, 0)
        ELSE [c1 EXCEPT !.pc = "upgrade", !.short_token = short_token.value]

\* lines 171-172
threads_callback_upgrade(c, resp) ==
    LET out == get_long_lived_token(c.auth_service.self, c.short_token, resp)
        c1 == [c EXCEPT !.calls = Logged(c, out, resp), !.auth_service.self = out.self]
        long_token == Subscript(out.value, "access_token")
    IN  IF out.raised # "none" THEN Fail(c1, out.raised, 0)
        ELSE IF long_token.raised # "none" THEN Fail(c1, long_token.raised, 0)
        ELSE [c1 EXCEPT !.pc = "profile", !.long_token = long_token.value]

\* mutant: the page shows the short-lived token
PageToken_short(c) == c.short_token

\* the token the success page shows in its textarea
PageToken(c) == c.long_token

\* lines 175-202
threads_callback_profile(c, resp) ==
    LET out == test_token(c.auth_service.self, c.long_token, resp)
        c1 == [c EXCEPT !.calls = Logged(c, out, resp), !.auth_service.self = out.self]
        user_info == out.value
    IN  IF out.raised # "none" THEN Fail(c1, out.raised, 0)
        ELSE IF user_info.parse # "object" THEN Fail(c1, "AttributeError", 0)
        ELSE [c1 EXCEPT !.pc = "done",
                        !.response = [NoResponse EXCEPT !.status = StatusOK,
                                                        !.kind = "html",
                                                        !.token = PageToken(c1),
                                                        !.user_info = user_info]]

CallbackBegin ==
    /\ Ready
    /\ \E q \in Queries(IssuedStates) : cur' = threads_callback_begin(env, q)
    /\ UNCHANGED <<env, svc, res, issued>>

CallbackExchange ==
    /\ cur.kind = "callback" /\ cur.pc = "exchange"
    /\ \E resp \in Responses : cur' = threads_callback_exchange(cur, resp)
    /\ UNCHANGED <<env, svc, res, issued>>

CallbackUpgrade ==
    /\ cur.kind = "callback" /\ cur.pc = "upgrade"
    /\ \E resp \in Responses : cur' = threads_callback_upgrade(cur, resp)
    /\ UNCHANGED <<env, svc, res, issued>>

CallbackProfile ==
    /\ cur.kind = "callback" /\ cur.pc = "profile"
    /\ \E resp \in Responses : cur' = threads_callback_profile(cur, resp)
    /\ UNCHANGED <<env, svc, res, issued>>

----------------------------------------------------------------------------
(* GET /threads/me *)

\* lines 222-230
get_threads_user_begin(e) ==
    LET c0 == [Idle EXCEPT !.kind = "me"]
        access_token == e.THREADS_ACCESS_TOKEN
    IN  IF ~Truthy(access_token) THEN Fail(c0, "HTTPException", StatusUnauthorized)
        ELSE LET ctor == ThreadsAuthService(e)
             IN  IF ctor.raised # "none" THEN Fail(c0, ctor.raised, 0)
                 ELSE [c0 EXCEPT !.pc = "profile",
                                 !.long_token = access_token,
                                 !.auth_service = [alive |-> TRUE, self |-> ctor.self]]

\* lines 231-236
get_threads_user_fetch(c, resp) ==
    LET out == test_token(c.auth_service.self, c.long_token, resp)
        c1 == [c EXCEPT !.calls = Logged(c, out, resp), !.auth_service.self = out.self]
    IN  IF out.raised # "none" THEN Fail(c1, out.raised, 0)
        ELSE [c1 EXCEPT !.pc = "done",
                        !.response = [NoResponse EXCEPT !.status = StatusOK,
                                                        !.kind = "json",
                                                        !.user_info = out.value]]

MeBegin ==
    /\ Ready
    /\ cur' = get_threads_user_begin(env)
    /\ UNCHANGED <<env, svc, res, issued>>

MeFetch ==
    /\ cur.kind = "me" /\ cur.pc = "profile"
    /\ \E resp \in Responses : cur' = get_threads_user_fetch(cur, resp)
    /\ UNCHANGED <<env, svc, res, issued>>

----------------------------------------------------------------------------
(* A caller that uses the service class directly and keeps the object *)

Construct ==
    /\ ~svc.alive
    /\ LET ctor == ThreadsAuthService(env)
       IN  /\ svc' = IF ctor.raised = "none"
                     THEN [alive |-> TRUE, self |-> ctor.self]
                     ELSE svc
           /\ res' = [NoRes EXCEPT !.op = "init",
                                   !.out = [self |-> ctor.self, http |-> ctor.http,
                                            raised |-> ctor.raised, value |-> NoBody]]
    /\ UNCHANGED <<env, cur, issued>>

\* one call on the object: the object is what the call left of it
Called(op, arg, resp, out) ==
    /\ svc' = [svc EXCEPT !.self = out.self]
    /\ res' = [op |-> op, arg |-> arg, resp |-> resp, out |-> out]
    /\ UNCHANGED <<env, cur>>

CallGenerate ==
    /\ svc.alive
    /\ Len(issued) < MaxGenerate
    /\ \E state \in {None} \cup SuppliedStates, rnd \in token_urlsafe :
          LET out == generate_auth_url(svc.self, state, rnd)
          IN  /\ Called("generate", state, NoResp, out)
              /\ issued' = Append(issued, [url |-> out.value.url,
                                           state |-> out.value.state,
                                           fresh |-> (state = None), login |-> FALSE])

CallExchange ==
    /\ svc.alive
    /\ \E resp \in Responses :
          Called("exchange", C1code, resp, exchange_code_for_token(svc.self, C1code, resp))
    /\ UNCHANGED issued

CallUpgrade ==
    /\ svc.alive
    /\ \E resp \in Responses :
          Called("upgrade", T1, resp, get_long_lived_token(svc.self, T1, resp))
    /\ UNCHANGED issued

CallRefresh ==
    /\ svc.alive
    /\ \E resp \in Responses :
          Called("refresh", T2, resp, refresh_long_lived_token(svc.self, T2, resp))
    /\ UNCHANGED issued

CallTest ==
    /\ svc.alive
    /\ \E resp \in Responses :
          Called("profile", T2, resp, test_token(svc.self, T2, resp))
    /\ UNCHANGED issued

----------------------------------------------------------------------------

\* the API: the handlers of app/api/main.py and the broker calls they make
Next ==
    \/ Login
    \/ CallbackBegin
    \/ CallbackExchange
    \/ CallbackUpgrade
    \/ CallbackProfile
    \/ MeBegin
    \/ MeFetch

Spec == Init /\ [][Next]_vars

\* the service class used directly: one object, any sequence of calls on it
InitBroker == Init /\ env.THREADS_ACCESS_TOKEN = None

NextBroker ==
    \/ Construct
    \/ CallGenerate
    \/ CallExchange
    \/ CallUpgrade
    \/ CallRefresh
    \/ CallTest

SpecBroker == InitBroker /\ [][NextBroker]_vars

----------------------------------------------------------------------------
(* Vocabulary of the properties *)

CredsOK(e) == Truthy(e.THREADS_APP_ID) /\ Truthy(e.THREADS_APP_SECRET)

HttpOps == {"exchange", "upgrade", "refresh", "profile"}

Is2xx(resp) == resp.net = "ok" /\ resp.status >= 200 /\ resp.status < 300

Is4xx5xx(resp) == resp.net = "ok" /\ resp.status >= 400 /\ resp.status < 600

\* the provider answered 2xx with a JSON object that carries access_token
TokenShaped(resp) ==
    Is2xx(resp) /\ resp.body.parse = "object" /\ HasKey(resp.body, "access_token")

IsPrefix(s, t) == Len(s) <= Len(t) /\ s = SubSeq(t, 1, Len(s))

CallOps(c) == [i \in 1..Len(c.calls) |-> c.calls[i].req.op]

----------------------------------------------------------------------------
(* Properties of the service class (SpecBroker) *)

\* C1: with app_id or app_secret absent or empty, construction raises (ValueError)
\* having sent no HTTP request, no object comes to exist, and so no operation
\* ever runs: every object that exists, and every call made, has both credentials.
C1_ConstructionFailsWithoutCredentials ==
    /\ ~CredsOK(env) =>
          /\ ~svc.alive
          /\ res.op \in {"none", "init"}
          /\ res.op = "init" => res.out.raised = "ValueError" /\ res.out.http = <<>>
    /\ svc.alive => Truthy(svc.self.app_id) /\ Truthy(svc.self.app_secret)
    /\ res.op \in HttpOps \cup {"generate"} =>
          Truthy(res.out.self.app_id) /\ Truthy(res.out.self.app_secret)

C1_Witness ==
    /\ ~CredsOK(env)
    /\ res.op = "init"
    /\ res.out.raised = "ValueError"

\* C2: one call of exchange_code_for_token, get_long_lived_token,
\* refresh_long_lived_token or test_token sends exactly one HTTP request, whatever
\* the outcome; on a 4xx/5xx answer it raises and returns nothing; on a 2xx answer
\* with a JSON body it returns exactly that body.
C2_OneRequestAndVerbatimBody ==
    res.op \in HttpOps =>
        /\ Len(res.out.http) = 1
        /\ res.out.http[1].op = res.op
        /\ Is4xx5xx(res.resp) =>
              res.out.raised = "HTTPError" /\ res.out.value = NoBody
        /\ (Is2xx(res.resp) /\ res.resp.body.parse # "invalid") =>
              res.out.raised = "none" /\ res.out.value = res.resp.body

C2_Witness ==
    /\ res.op = "upgrade"
    /\ res.resp.status = StatusOK
    /\ res.out.raised = "none"
    /\ res.out.value = BodyTokenLong

C7_BrokerFieldsFrozen ==
    [][svc.alive =>
          /\ svc'.alive
          /\ svc'.self = svc.self
          /\ DOMAIN svc'.self = BrokerFields]_vars

C7_Witness ==
    /\ svc.alive
    /\ res.op = "refresh"
    /\ res.out.raised = "HTTPError"
    /\ Len(issued) > 0

----------------------------------------------------------------------------
(* Properties of the API handlers (Spec) *)

C4_ExchangeOnlyForKnownState ==
    (cur.kind = "callback" /\ Len(cur.calls) >= 1) =>
        cur.query.state \in PendingStates

\* C6 as stated: a broker operation that returns normally returned a body with
\* access_token; a 2xx body without it makes the operation fail.
C6_NoReturnWithoutAccessToken ==
    cur.kind = "callback" =>
        \A i \in 1..Len(cur.calls) :
            (cur.calls[i].req.op \in {"exchange", "upgrade"} /\ cur.calls[i].raised = "none")
                => HasKey(cur.calls[i].resp.body, "access_token")

\* C6 amended: the broker operation returns normally on every 2xx answer with a
\* JSON body, whatever its shape; it is the handler that never proceeds with a
\* step result lacking access_token: that call is the last one and the request
\* ends in the error answer.
C6_ChainStopsWithoutAccessToken ==
    cur.kind = "callback" =>
        \A i \in 1..Len(cur.calls) :
            LET k == cur.calls[i]
            IN  /\ k.raised = "none" <=> (Is2xx(k.resp) /\ k.resp.body.parse # "invalid")
                /\ (k.req.op \in {"exchange", "upgrade"} /\ ~TokenShaped(k.resp)) =>
                      /\ i = Len(cur.calls)
                      /\ cur.pc = "done"
                      /\ cur.response.kind = "error"
                      /\ cur.response.status = StatusServerError

C6_Witness ==
    /\ cur.kind = "callback"
    /\ Len(cur.calls) = 1
    /\ cur.calls[1].raised = "none"
    /\ cur.calls[1].resp.body = BodyError
    /\ cur.exc = "KeyError"

C9_PreconditionStatusPreserved ==
    (cur.pc = "done" /\ cur.exc = "HTTPException") =>
        /\ cur.response.status = cur.exc_status
        /\ cur.response.status # StatusServerError

\* C10: in a callback, the upgrade is sent the access_token the code exchange of
\* this request returned, the profile fetch the access_token the upgrade returned,
\* and the success page shows that upgraded token.
C10_TokensFlowForward ==
    cur.kind = "callback" =>
        /\ Len(cur.calls) >= 2 =>
              cur.calls[2].req.params.access_token
                  = Get(cur.calls[1].resp.body, "access_token", None)
        /\ Len(cur.calls) >= 3 =>
              cur.calls[3].req.params.access_token
                  = Get(cur.calls[2].resp.body, "access_token", None)
        /\ cur.response.kind = "html" =>
              /\ cur.response.token = Get(cur.calls[2].resp.body, "access_token", None)
              /\ Truthy(cur.response.token)

C10_Witness ==
    /\ cur.kind = "callback"
    /\ cur.response.kind = "html"
    /\ cur.calls[1].resp.body = BodyToken
    /\ cur.calls[2].resp.body = BodyTokenLong
    /\ cur.response.token = T2

====
